---- MODULE Spec2Model ----
(***************************************************************************)
(* Ot2Rec reconstruction stage (src/Ot2Rec/recon.py, class Recon).         *)
(*                                                                         *)
(* The model follows the resumable batch loop of Recon: the constructor    *)
(* derives the table of requested tilt-series (_get_internal_metadata),    *)
(* loads the persisted record and reconciles it against the filesystem     *)
(* (_check_reconned_images); recon_stack then runs the external tool on    *)
(* every remaining tilt-series, updating and exporting the record after    *)
(* each one.  The environment is the filesystem (which output files        *)
(* exist) and the persisted yaml document <proj>_recon_mdout.yaml.         *)
(*                                                                         *)
(* A pandas DataFrame is a sequence of rows [idx, val]: idx is the row's   *)
(* index label and val its column values.  Index labels are kept because   *)
(* boolean indexing with a mask taken from a merge aligns on them.         *)
(***************************************************************************)
EXTENDS Integers, Sequences, FiniteSets, TLC

\* Largest tilt-series id a process list may name.
MaxId == 2

\* Longest process list with repeated ids (specification SpecRep).
MaxLen == 3

Ids == 1..MaxId

Columns == {"ts", "align_output", "recon_output"}

(***************************************************************************)
(* Paths                                                                   *)
(***************************************************************************)

\* f"{curr_ts:02d}": at least two decimal digits, zero padded.
Fmt02d(n) ==
    IF n < 10 THEN <<0, n>> ELSE <<n \div 10, n % 10>>

\* f"{subfolder}/{rootname}_{curr_ts:02d}{suffix}_ali.mrc"
AlignPath(ts) ==
    [stem |-> Fmt02d(ts), tail |-> "_ali.mrc"]

\* f"{subfolder}/{rootname}_{curr_ts:02d}{suffix}_rec.mrc"
ReconPath(ts) ==
    [stem |-> Fmt02d(ts), tail |-> "_rec.mrc"]

\* The paths the code tests with os.path.isfile.
ReconPaths == {ReconPath(t) : t \in Ids}

\* The pd.Series appended for one tilt-series.
NewRow(ts) ==
    [ts |-> ts, align_output |-> AlignPath(ts), recon_output |-> ReconPath(ts)]

\* os.path.isfile(x) on filesystem f
isfile(x, f) ==
    x \in f

(***************************************************************************)
(* pandas                                                                  *)
(***************************************************************************)

\* The rows of df at the positions in S, in order, labels kept.
Take(df, S) ==
    LET F[i \in 0..Len(df)] ==
            IF i = 0 THEN <<>>
            ELSE IF i \in S THEN Append(F[i-1], df[i]) ELSE F[i-1]
    IN F[Len(df)]

\* A fresh RangeIndex 0..n-1 (ignore_index=True).
RangeIndexed(df) ==
    [i \in 1..Len(df) |-> [idx |-> i - 1, val |-> df[i].val]]

\* DataFrame.append(other, ignore_index=True)
append(df, other) ==
    RangeIndexed(df \o other)

\* DataFrame.drop_duplicates(): the first of equal rows stays, labels kept.
drop_duplicates(df) ==
    Take(df, {i \in 1..Len(df) : \A j \in 1..(i-1) : df[j].val # df[i].val})

\* How many rows of right equal row on every column.
Matches(row, right) ==
    Cardinality({j \in 1..Len(right) : right[j].val = row.val})

\* left.merge(right, how='left', indicator=True)['_merge']: the rows of left
\* in order, a row matched by m > 0 rows of right appearing m times as
\* 'both', an unmatched row once as 'left_only'; the result has a RangeIndex.
merge(left, right) ==
    LET F[i \in 0..Len(left)] ==
            IF i = 0 THEN <<>>
            ELSE LET m == Matches(left[i], right)
                 IN F[i-1] \o (IF m = 0 THEN <<"left_only">>
                               ELSE [k \in 1..m |-> "both"])
    IN F[Len(left)]

\* The boolean Series _merged['_merge'] == 'left_only'.
IsLeftOnly(merged) ==
    [i \in 1..Len(merged) |-> merged[i] = "left_only"]

\* df[key] for a boolean Series key with a RangeIndex: the key is reindexed
\* to the labels of df; a label the key lacks raises IndexingError.
getitem_bool(df, key) ==
    IF \E i \in 1..Len(df) : df[i].idx >= Len(key)
    THEN [ok |-> FALSE, df |-> df]
    ELSE [ok |-> TRUE, df |-> Take(df, {i \in 1..Len(df) : key[df[i].idx + 1]})]

\* DataFrame.to_dict(): column -> {label: value}, labels in row order.
to_dict(df) ==
    [c \in Columns |-> [i \in 1..Len(df) |-> <<df[i].idx, df[i].val[c]>>]]

\* pd.DataFrame(d) for d as to_dict wrote it.
DataFrameOf(d) ==
    [i \in 1..Len(d.ts) |->
        [idx |-> d.ts[i][1], val |-> [c \in Columns |-> d[c][i][2]]]]

\* The members of a set of integers in ascending order.
RECURSIVE SortedSet(_)
SortedSet(S) ==
    IF S = {} THEN <<>>
    ELSE LET m == CHOOSE x \in S : \A y \in S : x <= y
         IN <<m>> \o SortedSet(S \ {m})

\* Mutant: unique() without sort_values(): the order of first appearance.
unique_unsorted(col) ==
    LET F[i \in 0..Len(col)] ==
            IF i = 0 THEN <<>>
            ELSE IF \E j \in 1..(i-1) : col[j] = col[i] THEN F[i-1]
                 ELSE Append(F[i-1], col[i])
    IN F[Len(col)]

\* Series.sort_values(ascending=True).unique().tolist()
sorted_unique(col) ==
    SortedSet({col[i] : i \in 1..Len(col)})

(***************************************************************************)
(* The persisted record and the external tool                              *)
(***************************************************************************)

\* No <proj>_recon_mdout.yaml on disk.
NoDoc ==
    [exists |-> FALSE, yaml |-> to_dict(<<>>)]

\* mdMod.read_md_yaml(...).metadata: the dictionary the document holds.
read_md_yaml(d) ==
    d.yaml

\* What one run of batchruntomo may do: write the aligned stack, write the
\* reconstruction, write to its error stream, return a status.
ToolOutcomes ==
    [ali : BOOLEAN, rec : BOOLEAN, errtext : BOOLEAN, status : {0, 1}]

\* The tool succeeds and writes both of its outputs.
Nominal(o) ==
    o.ali /\ o.rec /\ ~o.errtext /\ o.status = 0

NominalOutcomes ==
    {o \in ToolOutcomes : Nominal(o)}

\* The outcomes with an empty error stream and status 0.
QuietOutcomes ==
    {o \in ToolOutcomes : ~o.errtext /\ o.status = 0}

\* The files batchruntomo leaves for tilt-series ts.
Produced(ts, o) ==
    (IF o.ali THEN {AlignPath(ts)} ELSE {}) \cup
    (IF o.rec THEN {ReconPath(ts)} ELSE {})

\* A captured stream: None, or its text.
None ==
    [isNone |-> TRUE, text |-> <<>>]

Text(t) ==
    [isNone |-> FALSE, text |-> t]

\* Python truthiness of a captured stream.
Truthy(v) ==
    ~v.isNone /\ v.text # <<>>

\* subprocess.run(cmd, stdout=PIPE, stderr=STDOUT, encoding='ascii'): the
\* error stream is redirected into stdout, so no stderr is captured.
subprocess_run(o) ==
    [returncode |-> o.status,
     stdout |-> Text(<<"out">> \o (IF o.errtext THEN <<"err">> ELSE <<>>)),
     stderr |-> None]

NoProcess ==
    [returncode |-> 0, stdout |-> None, stderr |-> None]

(***************************************************************************)
(* Recon                                                                   *)
(***************************************************************************)

\* _get_internal_metadata: one row per entry of the process list.
get_internal_metadata(pl) ==
    LET F[i \in 0..Len(pl)] ==
            IF i = 0 THEN <<>>
            ELSE append(F[i-1], <<[idx |-> 0, val |-> NewRow(pl[i])]>>)
    IN F[Len(pl)]

\* The record as loaded: empty without a document, else the document's
\* rows; exact duplicates dropped.
LoadRecord(d) ==
    drop_duplicates(IF ~d.exists THEN <<>> ELSE DataFrameOf(read_md_yaml(d)))

\* Mutant: the test of existence is not negated.
Missing_not_negated(mo, f) ==
    Take(mo, {i \in 1..Len(mo) : isfile(mo[i].val.recon_output, f)})

\* self._missing: the rows of the record whose recon_output is no file.
Missing(mo, f) ==
    Take(mo, {i \in 1..Len(mo) : ~isfile(mo[i].val.recon_output, f)})

\* Mutant: every missing row is taken, whatever its tilt-series.
MissingSpecified_all(missing, pl) ==
    RangeIndexed(missing)

\* self._missing_specified: for each entry of the process list in turn, the
\* missing rows of that tilt-series.
MissingSpecified(missing, pl) ==
    LET F[i \in 0..Len(pl)] ==
            IF i = 0 THEN <<>>
            ELSE append(F[i-1],
                        Take(missing, {j \in 1..Len(missing) :
                                          missing[j].val.ts = pl[i]}))
    IN F[Len(pl)]

\* The record without its missing specified rows (skipped when empty).
PruneRecord(mo, pl, f) ==
    IF Len(mo) > 0
    THEN getitem_bool(mo, IsLeftOnly(merge(mo, MissingSpecified(Missing(mo, f), pl))))
    ELSE [ok |-> TRUE, df |-> mo]

\* Mutant: recon_output is looked up in the record's align_output column.
Ignored_wrong_column(ri, mo) ==
    Take(ri, {i \in 1..Len(ri) :
                 ri[i].val.recon_output \in
                     {mo[j].val.align_output : j \in 1..Len(mo)}})

\* _ignored: the requested rows whose recon_output is in the record.
Ignored(ri, mo) ==
    Take(ri, {i \in 1..Len(ri) :
                 ri[i].val.recon_output \in
                     {mo[j].val.recon_output : j \in 1..Len(mo)}})

\* Mutant: the selection is computed but the table is left as it was.
PruneImages_not_applied(ri, ignored) ==
    [ok |-> getitem_bool(ri, IsLeftOnly(merge(ri, ignored))).ok, df |-> ri]

\* The requested rows without the ignored ones.
PruneImages(ri, ignored) ==
    getitem_bool(ri, IsLeftOnly(merge(ri, ignored)))

\* _check_reconned_images on process list pl, table ri, document d and
\* filesystem f: the attributes it leaves (ok = FALSE when it raises).
check_reconned_images(pl, ri, d, f) ==
    LET mo0 == LoadRecord(d)
        p1  == PruneRecord(mo0, pl, f)
        ign == Ignored(ri, p1.df)
        p2  == PruneImages(ri, ign)
    IN IF ~p1.ok
       THEN [ok |-> FALSE, meta_out |-> mo0, recon_images |-> ri,
             no_processes |-> FALSE, process_list |-> pl]
       ELSE IF ~p2.ok
       THEN [ok |-> FALSE, meta_out |-> p1.df, recon_images |-> ri,
             no_processes |-> (Len(ign) = Len(ri)), process_list |-> pl]
       ELSE [ok |-> TRUE, meta_out |-> p1.df, recon_images |-> p2.df,
             no_processes |-> (Len(ign) = Len(ri)),
             process_list |-> sorted_unique([i \in 1..Len(p2.df) |-> p2.df[i].val.ts])]

\* Mutant: the rows found are appended but neither taken off the pending
\* table nor de-duplicated.
update_recon_metadata_no_move(mo, ri, f) ==
    LET found == {i \in 1..Len(ri) : isfile(ri[i].val.recon_output, f)}
    IN [meta_out |-> append(mo, Take(ri, found)),
        recon_images |-> ri]

\* Mutant: drop_duplicates is left out.
update_recon_metadata_no_dedupe(mo, ri, f) ==
    LET found == {i \in 1..Len(ri) : isfile(ri[i].val.recon_output, f)}
    IN [meta_out |-> append(mo, Take(ri, found)),
        recon_images |-> Take(ri, (1..Len(ri)) \ found)]

\* Mutant: the exit of the tool is trusted: every pending row moves to the
\* record, its file found or not.
update_recon_metadata_no_recheck(mo, ri, f) ==
    [meta_out |-> drop_duplicates(append(mo, ri)),
     recon_images |-> <<>>]

\* Mutant: the rows found are put in front of the record.
update_recon_metadata_prepend(mo, ri, f) ==
    LET found == {i \in 1..Len(ri) : isfile(ri[i].val.recon_output, f)}
    IN [meta_out |-> drop_duplicates(append(Take(ri, found), mo)),
        recon_images |-> Take(ri, (1..Len(ri)) \ found)]

\* Mutant: only the first pending row found on disk moves to the record.
update_recon_metadata_first_only(mo, ri, f) ==
    LET found == {i \in 1..Len(ri) : isfile(ri[i].val.recon_output, f)}
        first == {i \in found : \A j \in found : i <= j}
    IN [meta_out |-> drop_duplicates(append(mo, Take(ri, first))),
        recon_images |-> Take(ri, (1..Len(ri)) \ first)]

\* Mutant: the rows found leave the pending table but are not appended.
update_recon_metadata_no_append(mo, ri, f) ==
    LET found == {i \in 1..Len(ri) : isfile(ri[i].val.recon_output, f)}
    IN [meta_out |-> drop_duplicates(mo),
        recon_images |-> Take(ri, (1..Len(ri)) \ found)]

\* Mutant: the rows found replace the record.
update_recon_metadata_replace(mo, ri, f) ==
    LET found == {i \in 1..Len(ri) : isfile(ri[i].val.recon_output, f)}
    IN [meta_out |-> drop_duplicates(RangeIndexed(Take(ri, found))),
        recon_images |-> Take(ri, (1..Len(ri)) \ found)]

\* update_recon_metadata: the pending rows whose recon_output is now a file
\* move to the record; duplicates dropped.
update_recon_metadata(mo, ri, f) ==
    LET found == {i \in 1..Len(ri) : isfile(ri[i].val.recon_output, f)}
    IN [meta_out |-> drop_duplicates(append(mo, Take(ri, found))),
        recon_images |-> Take(ri, (1..Len(ri)) \ found)]

\* export_metadata: the whole record overwrites the document.
export_metadata(mo) ==
    [exists |-> TRUE, yaml |-> to_dict(mo)]

\* Mutant: the record is exported before it is updated.
Completed_export_first(mo, ri, f) ==
    LET u == update_recon_metadata(mo, ri, f)
    IN [meta_out |-> u.meta_out, recon_images |-> u.recon_images,
        doc |-> export_metadata(mo)]

\* The else branch of the loop body: update the record, then export it.
Completed(mo, ri, f) ==
    LET u == update_recon_metadata(mo, ri, f)
    IN [meta_out |-> u.meta_out, recon_images |-> u.recon_images,
        doc |-> export_metadata(u.meta_out)]

\* The loop of recon_stack over work list wl run to its end, every
\* invocation succeeding and writing its outputs: what it leaves.
RECURSIVE RunLoop(_, _, _, _, _)
RunLoop(wl, mo, ri, d, f) ==
    IF wl = <<>>
    THEN [meta_out |-> mo, recon_images |-> ri, doc |-> d, fs |-> f]
    ELSE LET o  == CHOOSE x \in NominalOutcomes : TRUE
             f1 == f \cup Produced(Head(wl), o)
             r  == Completed(mo, ri, f1)
         IN RunLoop(Tail(wl), r.meta_out, r.recon_images, r.doc, f1)

\* Recon(...) on process list pl followed by recon_stack(), not interrupted,
\* from document d and filesystem f.
UninterruptedRun(pl, d, f) ==
    LET c == check_reconned_images(pl, get_internal_metadata(pl), d, f)
    IN RunLoop(c.process_list, c.meta_out, c.recon_images, d, f)

(***************************************************************************)
(* State                                                                   *)
(***************************************************************************)

VARIABLES
    fs,             \* the output files that exist
    doc,            \* the persisted document <proj>_recon_mdout.yaml
    pc,             \* "idle": no Recon object; "constructed"; "loop": inside
                    \* recon_stack; "done"; "failed": recon_stack raised;
                    \* "error": the constructor raised
    process_list,   \* params['System']['process_list']
    _recon_images,  \* the requested rows still pending
    meta_out,       \* the in-memory record
    _process_list,  \* the pruned work list
    no_processes,
    pos,            \* iterations of the loop of recon_stack already made
    batchruntomo,   \* the CompletedProcess of the last invocation
    stdout,         \* self.stdout
    invoked,        \* the tilt-series the tool was invoked on in this run
    tool_report,    \* what the last invocation wrote to its error stream
                    \* and returned
    epoch,          \* the document and filesystem the current series of
                    \* undisturbed runs of one process list started from
    memo            \* what earlier runs left to compare with: the reconcile
                    \* before this one, the items left outstanding

env == <<fs, doc>>
obj == <<process_list, _recon_images, meta_out, _process_list, no_processes,
         pos, batchruntomo, stdout, invoked, tool_report>>
vars == <<fs, doc, pc, process_list, _recon_images, meta_out, _process_list,
          no_processes, pos, batchruntomo, stdout, invoked, tool_report, epoch,
          memo>>

\* Process lists without repeated ids, in any order, the empty one included.
ProcessLists ==
    {pl \in UNION {[1..k -> Ids] : k \in 0..MaxId} :
        \A i, j \in DOMAIN pl : i # j => pl[i] # pl[j]}

\* Process lists that may repeat ids.
RepLists ==
    UNION {[1..k -> Ids] : k \in 1..MaxLen}

NoEpoch ==
    [open |-> FALSE, pl |-> <<>>, doc |-> NoDoc, fs |-> {}, resumed |-> FALSE]

\* No reconcile remembered.
NoMemo ==
    [seen |-> FALSE, pl |-> <<>>, again |-> FALSE, meta_out |-> <<>>,
     work |-> <<>>, outstanding |-> {}]

NoReport ==
    [errtext |-> FALSE, status |-> 0]

NoObject ==
    /\ process_list' = <<>>
    /\ _recon_images' = <<>>
    /\ meta_out' = <<>>
    /\ _process_list' = <<>>
    /\ no_processes' = FALSE
    /\ pos' = 0
    /\ batchruntomo' = NoProcess
    /\ stdout' = None
    /\ invoked' = <<>>
    /\ tool_report' = NoReport

Init ==
    /\ fs = {}
    /\ doc = NoDoc
    /\ pc = "idle"
    /\ process_list = <<>>
    /\ _recon_images = <<>>
    /\ meta_out = <<>>
    /\ _process_list = <<>>
    /\ no_processes = FALSE
    /\ pos = 0
    /\ batchruntomo = NoProcess
    /\ stdout = None
    /\ invoked = <<>>
    /\ tool_report = NoReport
    /\ epoch = NoEpoch
    /\ memo = NoMemo

(***************************************************************************)
(* Actions                                                                 *)
(***************************************************************************)

\* Mutant: loading the record consumes the document.
Constructor_consumes_document(pl) ==
    /\ pc = "idle"
    /\ LET c == check_reconned_images(pl, get_internal_metadata(pl), doc, fs)
       IN /\ process_list' = pl
          /\ _recon_images' = c.recon_images
          /\ meta_out' = c.meta_out
          /\ _process_list' = c.process_list
          /\ no_processes' = c.no_processes
          /\ pc' = IF c.ok THEN "constructed" ELSE "error"
    /\ pos' = 0
    /\ batchruntomo' = NoProcess
    /\ stdout' = None
    /\ invoked' = <<>>
    /\ tool_report' = NoReport
    /\ doc' = NoDoc
    /\ UNCHANGED fs

\* Recon(project_name, md_in, params_in, logger_in) with process list pl.
Constructor(pl) ==
    /\ pc = "idle"
    /\ LET c == check_reconned_images(pl, get_internal_metadata(pl), doc, fs)
       IN /\ process_list' = pl
          /\ _recon_images' = c.recon_images
          /\ meta_out' = c.meta_out
          /\ _process_list' = c.process_list
          /\ no_processes' = c.no_processes
          /\ pc' = IF c.ok THEN "constructed" ELSE "error"
    /\ pos' = 0
    /\ batchruntomo' = NoProcess
    /\ stdout' = None
    /\ invoked' = <<>>
    /\ tool_report' = NoReport
    /\ UNCHANGED env

Construct(pl) ==
    /\ Constructor(pl)
    /\ UNCHANGED <<epoch, memo>>

\* The same, remembering the document and filesystem a series of runs of one
\* process list started from.
ConstructTracked(pl) ==
    /\ Constructor(pl)
    /\ epoch' = IF epoch.open /\ epoch.pl = pl
                THEN [epoch EXCEPT !.resumed = @ \/ doc # epoch.doc]
                ELSE [open |-> TRUE, pl |-> pl, doc |-> doc, fs |-> fs,
                      resumed |-> FALSE]
    /\ UNCHANGED memo

\* The same, remembering the reconcile: its process list and what it left;
\* "again" when the reconcile before it had the same process list and nothing
\* but reconciles happened since.
ConstructMemo(pl) ==
    /\ Constructor(pl)
    /\ UNCHANGED epoch
    /\ LET same == memo.seen /\ memo.pl = pl
       IN memo' = [seen |-> TRUE, pl |-> pl, again |-> same,
                   meta_out |-> IF same THEN memo.meta_out ELSE meta_out',
                   work |-> IF same THEN memo.work ELSE _process_list',
                   outstanding |-> {}]

\* recon_stack is called: the iterator over the work list is made.
recon_stack_enter ==
    /\ pc = "constructed"
    /\ pc' = IF _process_list = <<>> THEN "done" ELSE "loop"
    /\ UNCHANGED <<env, obj, epoch, memo>>

\* The body of the loop of recon_stack, the tool behaving as o.
recon_stack_body(o) ==
    /\ pc = "loop"
    /\ LET curr_ts == _process_list[pos + 1]
           f1 == fs \cup Produced(curr_ts, o)
           cp == subprocess_run(o)
       IN /\ fs' = f1
          /\ batchruntomo' = cp
          /\ invoked' = Append(invoked, curr_ts)
          /\ tool_report' = [errtext |-> o.errtext, status |-> o.status]
          /\ IF Truthy(cp.stderr)
             THEN /\ pc' = "failed"
                  /\ UNCHANGED <<doc, meta_out, _recon_images, pos, stdout>>
             ELSE LET r == Completed(meta_out, _recon_images, f1)
                  IN /\ stdout' = cp.stdout
                     /\ meta_out' = r.meta_out
                     /\ _recon_images' = r.recon_images
                     /\ doc' = r.doc
                     /\ pos' = pos + 1
                     /\ pc' = IF pos + 1 = Len(_process_list)
                              THEN "done" ELSE "loop"
    /\ UNCHANGED <<process_list, _process_list, no_processes>>

\* One iteration of the loop of recon_stack, the tool behaving as o.
recon_stack_iter(o) ==
    /\ recon_stack_body(o)
    /\ epoch' = IF Nominal(o) THEN epoch ELSE NoEpoch
    /\ UNCHANGED memo

\* The same, remembering the items whose invocation returned without error
\* and whose reconstruction the re-check did not find, until they get a row.
recon_stack_iter_memo(o) ==
    /\ recon_stack_body(o)
    /\ UNCHANGED epoch
    /\ LET curr_ts == _process_list[pos + 1]
           rest == {x \in memo.outstanding \ {curr_ts} :
                       \A i \in 1..Len(meta_out') : meta_out'[i].val.ts # x}
       IN memo' = [memo EXCEPT
                      !.outstanding =
                          IF pc' # "failed" /\ ~isfile(ReconPath(curr_ts), fs')
                          THEN rest \cup {curr_ts} ELSE rest]

\* The same, the reconcile remembered being forgotten: the record and the
\* filesystem are no longer the ones it saw.
recon_stack_iter_forget(o) ==
    /\ recon_stack_body(o)
    /\ UNCHANGED epoch
    /\ memo' = NoMemo

\* The process is killed between two steps.
Interrupt ==
    /\ pc \in {"constructed", "loop", "done"}
    /\ pc' = "idle"
    /\ NoObject
    /\ UNCHANGED <<env, epoch, memo>>

\* The process ends: recon_stack returned, or an exception left it.
Exit ==
    /\ pc \in {"done", "failed", "error"}
    /\ pc' = "idle"
    /\ NoObject
    /\ epoch' = NoEpoch
    /\ UNCHANGED <<env, memo>>

\* A reconstruction is deleted from outside.
Removed(p) ==
    /\ pc = "idle"
    /\ p \in fs
    /\ fs' = fs \ {p}
    /\ epoch' = NoEpoch
    /\ UNCHANGED <<doc, pc, obj>>

\* A reconstruction appears from outside.
Created(p) ==
    /\ pc = "idle"
    /\ p \notin fs
    /\ fs' = fs \cup {p}
    /\ epoch' = NoEpoch
    /\ UNCHANGED <<doc, pc, obj>>

\* Between runs a reconstruction is deleted from outside.
FsRemove(p) ==
    /\ Removed(p)
    /\ UNCHANGED memo

\* Between runs a reconstruction appears from outside.
FsCreate(p) ==
    /\ Created(p)
    /\ UNCHANGED memo

\* The same, the reconcile remembered being forgotten.
FsRemoveForget(p) ==
    /\ Removed(p)
    /\ memo' = NoMemo

FsCreateForget(p) ==
    /\ Created(p)
    /\ memo' = NoMemo

Next ==
    \/ \E pl \in ProcessLists : Construct(pl)
    \/ recon_stack_enter
    \/ \E o \in ToolOutcomes : recon_stack_iter(o)
    \/ Interrupt
    \/ Exit
    \/ \E p \in ReconPaths : FsRemove(p)
    \/ \E p \in ReconPaths : FsCreate(p)

Spec == Init /\ [][Next]_vars

\* The same program given process lists that repeat ids, the tool reporting
\* no error and no reconstruction being deleted.
NextRep ==
    \/ \E pl \in RepLists : Construct(pl)
    \/ recon_stack_enter
    \/ \E o \in QuietOutcomes : recon_stack_iter(o)
    \/ Interrupt
    \/ Exit
    \/ \E p \in ReconPaths : FsCreate(p)

SpecRep == Init /\ [][NextRep]_vars

\* Runs with a tool that always succeeds and writes its outputs, each series
\* of runs of one process list remembering where it started.
NextResume ==
    \/ \E pl \in ProcessLists : ConstructTracked(pl)
    \/ recon_stack_enter
    \/ \E o \in NominalOutcomes : recon_stack_iter(o)
    \/ Interrupt
    \/ Exit
    \/ \E p \in ReconPaths : FsRemove(p)
    \/ \E p \in ReconPaths : FsCreate(p)

SpecResume == Init /\ [][NextResume]_vars

\* Runs with a tool that reports no error, the items it leaves outstanding
\* remembered.
NextRetry ==
    \/ \E pl \in ProcessLists : Construct(pl)
    \/ recon_stack_enter
    \/ \E o \in QuietOutcomes : recon_stack_iter_memo(o)
    \/ Interrupt
    \/ Exit
    \/ \E p \in ReconPaths : FsRemove(p)
    \/ \E p \in ReconPaths : FsCreate(p)

SpecRetry == Init /\ [][NextRetry]_vars

\* Runs with a tool that reports no error, each reconcile remembered until the
\* record or the filesystem changes.
NextTwice ==
    \/ \E pl \in ProcessLists : ConstructMemo(pl)
    \/ recon_stack_enter
    \/ \E o \in QuietOutcomes : recon_stack_iter_forget(o)
    \/ Interrupt
    \/ Exit
    \/ \E p \in ReconPaths : FsRemoveForget(p)
    \/ \E p \in ReconPaths : FsCreateForget(p)

SpecTwice == Init /\ [][NextTwice]_vars

(***************************************************************************)
(* Properties                                                              *)
(***************************************************************************)

Range(q) ==
    {q[i] : i \in 1..Len(q)}

\* The rows of a DataFrame, without their labels.
RecordRows(df) ==
    {df[i].val : i \in 1..Len(df)}

\* The rows the persisted document holds, read off the document itself.
DocRows ==
    IF doc.exists
    THEN {[c \in Columns |-> doc.yaml[c][i][2]] : i \in 1..Len(doc.yaml.ts)}
    ELSE {}

\* The rows of the loaded record whose recorded output is not on the
\* filesystem.  While pc = "constructed" the document and the filesystem are
\* the ones _check_reconned_images saw.
LoadedStale ==
    {r \in DocRows : r.recon_output \notin fs}

Requested ==
    Range(process_list)

\* C1 (no double-processing): after reconcile, a requested item whose output
\* exists on the filesystem and whose output path is in the loaded record is
\* not in the pruned work list.
C1_NoDoubleProcessing ==
    pc = "constructed" =>
        \A x \in Requested :
            (/\ ReconPath(x) \in fs
             /\ \E r \in DocRows : r.recon_output = ReconPath(x))
            => x \notin Range(_process_list)

\* A reconcile that skips a completed item and keeps another one to process.
C1_Witness ==
    /\ pc = "constructed"
    /\ _process_list # <<>>
    /\ \E x \in Requested :
          /\ ReconPath(x) \in fs
          /\ \E r \in DocRows : r.recon_output = ReconPath(x)
          /\ x \notin Range(_process_list)

\* C2 as stated (stale-entry self-healing): after reconcile every row of the
\* loaded record whose output does not exist is absent from the pruned
\* record, and its id is in the pruned work list if it is requested.
C2_StaleAllRows ==
    pc = "constructed" =>
        \A r \in LoadedStale :
            /\ r \notin RecordRows(meta_out)
            /\ r.ts \in Requested => r.ts \in Range(_process_list)

\* C2 amended: after reconcile every row of the loaded record whose output
\* does not exist and whose id is requested is absent from the pruned record,
\* and its id is in the pruned work list.
C2_StaleRequestedRows ==
    pc = "constructed" =>
        \A r \in LoadedStale :
            r.ts \in Requested =>
                /\ r \notin RecordRows(meta_out)
                /\ r.ts \in Range(_process_list)

\* A reconcile that met a stale row of a requested item.
C2_Witness ==
    /\ pc = "constructed"
    /\ \E r \in LoadedStale :
          /\ r.ts \in Requested
          /\ r \notin RecordRows(meta_out)
          /\ r.ts \in Range(_process_list)

\* C3 as stated: after reconcile no row of the pruned record, requested or
\* not, has a recorded output that is missing from the filesystem.
C3_NoStaleRowLeft ==
    pc = "constructed" =>
        \A r \in RecordRows(meta_out) : r.recon_output \in fs

\* C3 amended: pass 1 considers the rows of requested ids only: after
\* reconcile no row of the pruned record with a requested id has a missing
\* output, and every loaded row of an id that is not requested is kept,
\* missing output or not.
C3_RequestedRowsOnly ==
    pc = "constructed" =>
        /\ \A r \in RecordRows(meta_out) :
              r.ts \in Requested => r.recon_output \in fs
        /\ \A r \in DocRows :
              r.ts \notin Requested => r \in RecordRows(meta_out)

\* A reconcile that pruned the stale row of a requested id and kept the stale
\* row of an id that is not requested.
C3_Witness ==
    /\ pc = "constructed"
    /\ \E r \in LoadedStale :
          r.ts \in Requested /\ r \notin RecordRows(meta_out)
    /\ \E r \in LoadedStale :
          r.ts \notin Requested /\ r \in RecordRows(meta_out)

\* C4 (crash-resume equivalence): a series of runs of one process list, each
\* but the last interrupted after some item was completed and persisted, the
\* tool always succeeding and nothing else touching the filesystem, ends with
\* the persisted record that one uninterrupted run from the same document and
\* filesystem ends with.
C4_CrashResume ==
    (pc = "done" /\ epoch.open) =>
        doc = UninterruptedRun(epoch.pl, epoch.doc, epoch.fs).doc

\* A run over 1..n that finished the items an interrupted run over 1..n had
\* left after persisting some.
C4_Witness ==
    /\ pc = "done"
    /\ epoch.open
    /\ epoch.resumed
    /\ Len(epoch.pl) >= 2
    /\ epoch.pl = [i \in 1..Len(epoch.pl) |-> i]
    /\ invoked # <<>>
    /\ doc # epoch.doc

\* The last invocation wrote to its error stream or returned a non-zero
\* status.
Failing(report) ==
    report.errtext \/ report.status # 0

\* C5 (failure detection): whenever the invocation for an item writes a
\* non-empty error stream or returns a non-zero status, recon_stack raises:
\* the item goes to Failed, not to Completed.
C5_FailureDetected ==
    (invoked # <<>> /\ Failing(tool_report)) => pc = "failed"

\* C6 (fail-fast halt): when the invocation of an item fails the loop raises
\* at once, the failed item gets no row, the record and the persisted
\* document stay as they were, and nothing is invoked after it in that run.
C6_FailFast ==
    [][/\ (Len(invoked') = Len(invoked) + 1 /\ Failing(tool_report')) =>
             /\ pc' = "failed"
             /\ doc' = doc
             /\ meta_out' = meta_out
       /\ (invoked # <<>> /\ Failing(tool_report)) =>
             Len(invoked') <= Len(invoked)]_vars

\* C7 (persist per item): whenever the loop is about to invoke the tool after
\* an earlier item of the run was completed, the filesystem re-check is done
\* (no pending row has its output on disk) and the persisted document holds
\* exactly the in-memory record.
C7_PersistedBeforeNext ==
    (pc = "loop" /\ pos >= 1) =>
        /\ doc.exists
        /\ DataFrameOf(read_md_yaml(doc)) = meta_out
        /\ \A r \in RecordRows(_recon_images) : r.recon_output \notin fs

\* The loop about to invoke the next item, the item before having added its
\* row to the record.
C7_Witness ==
    /\ pc = "loop"
    /\ pos >= 1
    /\ NewRow(_process_list[pos]) \in RecordRows(meta_out)
    /\ NewRow(_process_list[pos]) \in DocRows

NoDuplicateRows(rows) ==
    \A i, j \in 1..Len(rows) : i # j => rows[i] # rows[j]

\* C8 (no duplicate rows): neither the in-memory record nor the persisted
\* document ever holds two rows with the same id, align output and recon
\* output.
C8_NoDuplicateRows ==
    /\ NoDuplicateRows([i \in 1..Len(meta_out) |-> meta_out[i].val])
    /\ NoDuplicateRows([i \in 1..Len(doc.yaml.ts) |->
                           [c \in Columns |-> doc.yaml[c][i][2]]])

\* A process list naming an id twice, both of its pending rows found on disk
\* and moved to the record by this run.
C8_Witness ==
    /\ pc \in {"loop", "done"}
    /\ \E i, j \in 1..Len(process_list) :
          /\ i # j
          /\ process_list[i] = process_list[j]
          /\ process_list[i] \in Range(invoked)
          /\ NewRow(process_list[i]) \in RecordRows(meta_out)
          /\ NewRow(process_list[i]) \in DocRows

\* C9 (order of invocations): in every run the tool is invoked on items of
\* the pruned work list only, in strictly ascending id order (so each at most
\* once), and on all of them when the loop ends, whatever the order or
\* repetition of ids in the process list.
C9_AscendingOnce ==
    /\ \A i, j \in 1..Len(invoked) : i < j => invoked[i] < invoked[j]
    /\ Range(invoked) \subseteq Range(_process_list)
    /\ pc = "done" => Range(_process_list) \subseteq Range(invoked)

\* A finished run of a process list that repeats an id and is not ascending,
\* with two invocations.
C9_Witness ==
    /\ pc = "done"
    /\ Len(invoked) >= 2
    /\ \E i, j \in 1..Len(process_list) : i < j /\ process_list[i] = process_list[j]
    /\ \E i, j \in 1..Len(process_list) : i < j /\ process_list[i] > process_list[j]

\* Every requested item has its recon output in the in-memory record.
Satisfied ==
    \A x \in Requested :
        \E r \in RecordRows(meta_out) : r.recon_output = ReconPath(x)

\* C10 (no-op run): if every requested item is satisfied by the pruned
\* record, the pruned work list is empty and recon_stack ends at once: no
\* invocation, no error, record, document and filesystem unchanged.
C10_NoOpRun ==
    [][(pc = "constructed" /\ Satisfied) =>
          /\ _process_list = <<>>
          /\ no_processes
          /\ pc' # "idle" =>
                /\ pc' = "done"
                /\ invoked' = <<>>
                /\ UNCHANGED <<doc, fs, meta_out>>]_vars

\* recon_stack returned from a run whose requested items were all satisfied.
C10_Witness ==
    /\ pc = "done"
    /\ pos = 0
    /\ process_list # <<>>
    /\ Satisfied
    /\ no_processes
    /\ invoked = <<>>

\* C11 (all-artifacts rule): an item counts as completed only when both its
\* aligned and its reconstructed output are accounted for: after reconcile a
\* requested item whose reconstruction is on disk and whose aligned stack is
\* not is still in the pruned work list, and the loop adds no row to the
\* record for an item it invoked whose aligned stack is not on disk.
C11_AllArtifacts ==
    /\ pc = "constructed" =>
          \A x \in Requested :
              (ReconPath(x) \in fs /\ AlignPath(x) \notin fs)
              => x \in Range(_process_list)
    /\ pc \in {"loop", "done"} =>
          \A x \in Range(invoked) :
              NewRow(x) \in RecordRows(meta_out) => AlignPath(x) \in fs

\* C12 (success without output): an item whose invocation returned without
\* error and whose reconstruction the re-check did not find gets no row, in
\* the in-memory record or in the persisted document; on a later run, if it
\* is requested again, reconcile puts it in the pruned work list.
C12_OutstandingRetried ==
    \A x \in memo.outstanding :
        /\ \A r \in DocRows : r.ts # x
        /\ pc \in {"loop", "done"} => \A r \in RecordRows(meta_out) : r.ts # x
        /\ (pc = "constructed" /\ x \in Requested) => x \in Range(_process_list)

\* A reconcile that puts back an item the run before had left outstanding
\* after persisting the record.
C12_Witness ==
    /\ pc = "constructed"
    /\ doc.exists
    /\ \E x \in memo.outstanding :
          /\ x \in Requested
          /\ x \in Range(_process_list)
          /\ \A r \in DocRows : r.ts # x

Vals(df) ==
    [i \in 1..Len(df) |-> df[i].val]

\* Scenario B: requested [1,2,3], the record holding the row of 2, whose
\* reconstruction is on disk: the work list is [1,3] and the run ends with
\* the rows of 2, 1 and 3, in that order.
ScenarioB ==
    LET d == export_metadata(get_internal_metadata(<<2>>))
        f == {ReconPath(2)}
        c == check_reconned_images(<<1, 2, 3>>, get_internal_metadata(<<1, 2, 3>>), d, f)
        r == UninterruptedRun(<<1, 2, 3>>, d, f)
    IN /\ c.process_list = <<1, 3>>
       /\ Vals(r.meta_out) = <<NewRow(2), NewRow(1), NewRow(3)>>
       /\ Vals(DataFrameOf(read_md_yaml(r.doc))) = <<NewRow(2), NewRow(1), NewRow(3)>>

\* C13 (the loop never removes or alters a row): every step of the loop of
\* recon_stack leaves the rows the record held before it in place, unchanged
\* and in the same order, and only appends rows after them; Scenario B ends
\* with the row of 2 untouched and the rows of 1 and 3 appended.
C13_LoopKeepsRows ==
    [][/\ ScenarioB
       /\ (pc = "loop" /\ pc' \in {"loop", "done", "failed"}) =>
             /\ Len(meta_out') >= Len(meta_out)
             /\ SubSeq(Vals(meta_out'), 1, Len(meta_out)) = Vals(meta_out)]_vars

\* A finished run that appended the row of the item it processed after the
\* row of a requested item the record already held.
C13_Witness ==
    /\ pc = "done"
    /\ Len(meta_out) >= 2
    /\ meta_out[1].val.ts \in Requested \ Range(invoked)
    /\ meta_out[Len(meta_out)].val.ts \in Range(invoked)
    /\ ScenarioB

\* A step of the loop of recon_stack: one invocation and what follows it.
LoopStep ==
    pc = "loop" /\ pc' \in {"loop", "done", "failed"}

\* C15 (a completed item is never reprocessed): whenever the loop is about to
\* invoke the tool on an item, that item has no row in the in-memory record.
C15_NoRowWhenInvoked ==
    pc = "loop" =>
        \A r \in RecordRows(meta_out) : r.ts # _process_list[pos + 1]

\* C16 (empty requested set rejected): constructing Recon on an empty process
\* list ends in an error, not in an object ready for a no-op run.
C16_EmptyRejected ==
    (pc # "idle" /\ process_list = <<>>) => pc = "error"

\* C17 as stated (update local to the item just run): a step of the loop adds
\* to the record at most the row of the item it invoked the tool on.
C17_OnlyCurrentRow ==
    [][LoopStep =>
          RecordRows(meta_out') \ RecordRows(meta_out)
              \subseteq {NewRow(_process_list[pos + 1])}]_vars

\* C17 amended: a step of the loop moves to the record exactly the pending
\* rows whose reconstruction is on disk at the re-check, the row of the item
\* just run or of any other pending item; the other pending rows stay.
C17_EveryPendingRowFound ==
    [][LoopStep =>
          /\ RecordRows(meta_out') \ RecordRows(meta_out) =
                 {r \in RecordRows(_recon_images) : r.recon_output \in fs'}
          /\ RecordRows(_recon_images') =
                 {r \in RecordRows(_recon_images) : r.recon_output \notin fs'}]_vars

\* The loop has added the row of a pending item it has not invoked the tool
\* on, next to the row of the item it has.
C17_Witness ==
    /\ pc \in {"loop", "done"}
    /\ \E x \in Range(invoked) : NewRow(x) \in RecordRows(meta_out)
    /\ \E y \in Range(_process_list) \ Range(invoked) :
          NewRow(y) \in RecordRows(meta_out)

\* The recon outputs a table names.
ReconOutputs(df) ==
    {df[i].val.recon_output : i \in 1..Len(df)}

\* C18 (partition): after reconcile and after every step of the loop, every
\* requested item has its recon output either in the pending table or in the
\* in-memory record, never in both and never in neither.
C18_Partition ==
    pc \in {"constructed", "loop", "done"} =>
        \A x \in Requested :
            (ReconPath(x) \in ReconOutputs(_recon_images))
                # (ReconPath(x) \in ReconOutputs(meta_out))

\* Between two steps of the loop: one requested item moved to the record,
\* another still pending.
C18_Witness ==
    /\ pc = "loop"
    /\ pos >= 1
    /\ \E x \in Requested : ReconPath(x) \in ReconOutputs(meta_out)
    /\ \E x \in Requested : ReconPath(x) \in ReconOutputs(_recon_images)

\* C19 (reconcile does not write the document): the persisted document
\* changes only in a step of the loop whose invocation succeeded; a run whose
\* work list is empty or whose first invocation fails leaves it as loaded.
C19_DocWrittenOnSuccessOnly ==
    [][doc' # doc => (LoopStep /\ ~Failing(tool_report'))]_vars

\* C20 (history of unrequested items): a row of the loaded record whose id is
\* not requested and whose output is on disk is in the pruned record after
\* reconcile, and in the record and the document after every step of the
\* loop.
C20_UnrequestedKept ==
    [][/\ pc' = "constructed" =>
             \A r \in DocRows :
                 (r.ts \notin Range(process_list') /\ r.recon_output \in fs)
                 => r \in RecordRows(meta_out')
       /\ LoopStep =>
             \A r \in DocRows :
                 (r.ts \notin Requested /\ r.recon_output \in fs)
                 => (r \in RecordRows(meta_out') /\ r \in DocRows' /\ doc'.exists)]_vars

\* A finished run of a subset that persisted its own row next to the row of
\* an item not requested whose output is on disk.
C20_Witness ==
    /\ pc = "done"
    /\ invoked # <<>>
    /\ NewRow(invoked[1]) \in DocRows
    /\ \E r \in DocRows :
          /\ r.ts \notin Requested
          /\ r.recon_output \in fs
          /\ r \in RecordRows(meta_out)

====
